---------------------------- MODULE Spec2Model ----------------------------
(***************************************************************************)
(* A model of serverless-offline-sqs-local (src/index.js): the plugin that *)
(* creates the SQS queues a serverless manifest declares and then runs one *)
(* receive -> invoke -> delete loop per (function, sqs trigger) pair.       *)
(*                                                                         *)
(* JavaScript values are tagged records; a JavaScript string is the        *)
(* sequence of its characters, so that String.prototype.split is computed  *)
(* and not assumed.                                                        *)
(***************************************************************************)
EXTENDS Integers, Sequences, FiniteSets, TLC

VARIABLES
    manifest,   \* which manifest the plugin was constructed with
    boot,       \* where offlineStartInit stands
    creates,    \* per resource name: the createQueue call and the createInitialQueue promise
    status,     \* per poller: the createQueueReadable / next chain
    QueueUrl,   \* per poller: the QueueUrl bound at line 172
    pending,    \* per poller: the operations issued and not yet answered
    cycle,      \* per poller: the current call of next (its Messages, its invocation, its deletes)
    rIn,        \* the arguments of a function call under test
    rOut        \* its outcome

vars == <<manifest, boot, creates, status, QueueUrl, pending, cycle, rIn, rOut>>

-----------------------------------------------------------------------------
(* Bounds of the model. *)

\* message ids the backend hands out
NumMsgIds == 2

-----------------------------------------------------------------------------
(* JavaScript values. *)

Undefined == [t |-> "undefined"]
Null == [t |-> "null"]
Str(s) == [t |-> "string", s |-> s]
Num(n) == [t |-> "number", n |-> n]
Arr(a) == [t |-> "array", a |-> a]
\* an object whose keys are computed (Resources, Properties): o maps key -> value
Obj(o) == [t |-> "object", o |-> o]

typeof(x) ==
    CASE x.t = "undefined" -> "undefined"
      [] x.t = "string" -> "string"
      [] x.t = "number" -> "number"
      [] OTHER -> "object"

Truthy(x) ==
    CASE x.t \in {"undefined", "null"} -> FALSE
      [] x.t = "string" -> x.s # <<>>
      [] x.t = "number" -> x.n # 0
      [] OTHER -> TRUE

\* obj[key] for a computed key; reading a property of undefined or null is a TypeError,
\* which the callers decide before they call this
Get(x, key) ==
    IF x.t = "object" /\ key \in DOMAIN x.o THEN x.o[key] ELSE Undefined

\* s.split(sep) for a one-character separator: the fields between the separators,
\* empty fields included
RECURSIVE SplitFrom(_, _, _, _, _)
SplitFrom(s, sep, i, cur, acc) ==
    IF i > Len(s) THEN Append(acc, cur)
    ELSE IF s[i] = sep THEN SplitFrom(s, sep, i + 1, <<>>, Append(acc, cur))
    ELSE SplitFrom(s, sep, i + 1, Append(cur, s[i]), acc)

split(s, sep) == SplitFrom(s, sep, 1, <<>>, <<>>)

\* an array element, undefined past the end (a destructuring pattern's read)
At(a, i) == IF i <= Len(a) THEN a[i] ELSE Undefined

-----------------------------------------------------------------------------
(* getQueueName. *)

Return(v) == [kind |-> "return", value |-> v]
Throw(e) == [kind |-> "throw", error |-> e]

QueueNameNotFound == "QueueName not found"
TypeError == "TypeError"

\* a faulty variant: it reads the fifth field
extractQueueNameFromARN_M(arn) ==
    LET fields == split(arn, ":")
    IN  IF Len(fields) >= 5 THEN Str(fields[5]) ELSE Undefined

extractQueueNameFromARN(arn) ==
    LET fields == split(arn, ":")
    IN  IF Len(fields) >= 6 THEN Str(fields[6]) ELSE Undefined

\* this.service.resources.Resources[ResourceName].Properties.QueueName, guarded as at
\* lines 63-68; svc is this.service
ResourceQueueName(svc, ResourceName) ==
    LET key == IF ResourceName.t = "string" THEN ResourceName.s
               ELSE <<"u", "n", "d", "e", "f", "i", "n", "e", "d">>
        resources == IF Truthy(svc) THEN svc.resources ELSE Undefined
        Resources == IF Truthy(resources) THEN resources.Resources ELSE Undefined
        resource == IF Truthy(Resources) THEN Get(Resources, key) ELSE Undefined
        Properties == IF Truthy(resource) THEN resource.Properties ELSE Undefined
    IN  IF Truthy(Properties) /\ typeof(Get(Properties, "QueueName")) = "string"
        THEN Get(Properties, "QueueName")
        ELSE Undefined

\* queueEvent is a string, or an object [t |-> "event", arn, queueName, batchSize];
\* an arn object is [t |-> "ref", GetAtt]
getQueueName(svc, queueEvent) ==
    IF typeof(queueEvent) = "string" THEN Return(extractQueueNameFromARN(queueEvent.s))
    ELSE IF typeof(queueEvent.arn) = "string"
    THEN Return(extractQueueNameFromARN(queueEvent.arn.s))
    ELSE IF typeof(queueEvent.queueName) = "string" THEN Return(queueEvent.queueName)
    ELSE IF queueEvent.arn.t \in {"undefined", "null"} THEN Throw(TypeError)
    ELSE LET GetAtt == IF queueEvent.arn.t = "ref" THEN queueEvent.arn.GetAtt ELSE Undefined
         IN  IF ~Truthy(GetAtt) THEN Throw(QueueNameNotFound)
             ELSE IF GetAtt.t \notin {"array", "string"} THEN Throw(TypeError)
             ELSE LET first == IF GetAtt.t = "array" THEN At(GetAtt.a, 1)
                               ELSE Str(<<GetAtt.s[1]>>)
                      name == ResourceQueueName(svc, first)
                  IN  IF name.t = "string" THEN Return(name)
                      ELSE Throw(QueueNameNotFound)

-----------------------------------------------------------------------------
(* The manifests. *)

\* "a:a:s:r:1:q1" and "a:a:s:r:1:q2": ARNs whose sixth field is the queue name
ArnQ1 == <<"a", ":", "a", ":", "s", ":", "r", ":", "1", ":", "q", "1">>
ArnQ2 == <<"a", ":", "a", ":", "s", ":", "r", ":", "1", ":", "q", "2">>
NameQ1 == <<"q", "1">>
NameQ2 == <<"q", "2">>
NameQ3 == <<"q", "3">>

QueueType == "AWS::SQS::Queue"

Event(arn, queueName, batchSize) ==
    [t |-> "event", arn |-> arn, queueName |-> queueName, batchSize |-> batchSize]
Ref(GetAtt) == [t |-> "ref", GetAtt |-> GetAtt]
Resource(Type, Properties) == [t |-> "resource", Type |-> Type, Properties |-> Properties]
ResourcesOf(Resources) == [t |-> "resources", Resources |-> Resources]
Sqs(queueEvent) == [kind |-> "sqs", sqs |-> queueEvent]
Http == [kind |-> "http", sqs |-> Undefined]

\* two queue resources and a topic; f1 polls q1 by ARN (and has an http event), f2
\* polls q2 by reference, f3 has no event
ServiceA ==
    [t |-> "service",
     resources |-> ResourcesOf(Obj(
         (<<"Q", "1">> :> Resource(QueueType, Obj([QueueName |-> Str(NameQ1)])))
      @@ (<<"Q", "2">> :> Resource(QueueType, Obj([QueueName |-> Str(NameQ2)])))
      @@ (<<"T">> :> Resource("AWS::SNS::Topic", Obj([TopicName |-> Str(<<"t">>)]))))),
     functions |-> <<
         [name |-> "f1",
          events |-> <<Sqs(Event(Str(ArnQ1), Undefined, Num(2))), Http>>],
         [name |-> "f2",
          events |-> <<Sqs(Event(Ref(Arr(<<Str(<<"Q", "2">>), Str(<<"A", "r", "n">>)>>)),
                                 Undefined, Num(1)))>>],
         [name |-> "f3", events |-> <<>>] >>]

\* no resources section; f1 has three sqs events: a plain ARN string, a declaration
\* with neither arn nor queueName, and a literal queueName
ServiceB ==
    [t |-> "service",
     resources |-> Undefined,
     functions |-> <<
         [name |-> "f1",
          events |-> <<Sqs(Str(ArnQ2)),
                       Sqs(Event(Undefined, Undefined, Num(1))),
                       Sqs(Event(Undefined, Str(NameQ1), Num(2)))>>] >>]

\* a queue resource without Properties and one whose QueueName is a number
ServiceC ==
    [t |-> "service",
     resources |-> ResourcesOf(Obj(
         (<<"Q", "1">> :> Resource(QueueType, Undefined))
      @@ (<<"Q", "2">> :> Resource(QueueType, Obj([QueueName |-> Num(7)]))))),
     functions |-> <<>>]

\* a resources section without Resources
ServiceD == [t |-> "service", resources |-> ResourcesOf(Undefined), functions |-> <<>>]

Services == {ServiceA, ServiceB}

\* this.service (line 30)
service == IF manifest = "A" THEN ServiceA ELSE ServiceB

-----------------------------------------------------------------------------
(* The backend's answers. *)

\* each message comes with a receipt handle of its own
Message == {[MessageId |-> i, ReceiptHandle |-> <<"rh", i>>] : i \in 1..NumMsgIds}

\* the message lists a receive of at most n messages can return
Batches(n) == UNION {[1..k -> Message] : k \in 0..n}

\* MaxNumberOfMessages as the backend reads it: 1 when the parameter is not given
MaxMessages(op) ==
    IF op.MaxNumberOfMessages.t = "number" THEN op.MaxNumberOfMessages.n ELSE 1

\* {err, data} of a receiveMessage callback: an error, no Messages field, or a list
ReceiveReplies(op) ==
    {[err |-> TRUE, Messages |-> Undefined], [err |-> FALSE, Messages |-> Undefined]}
    \cup {[err |-> FALSE, Messages |-> Arr(b)] : b \in Batches(MaxMessages(op))}

UrlOf(QueueName) == <<"/">> \o QueueName

-----------------------------------------------------------------------------
(* fromCallback, and the pollers. *)

\* how the promise of fromCallback settles when the callback is called with err
fromCallback(err) == IF err THEN "rejected" ELSE "resolved"

\* a faulty variant: only the first sqs event of a function is taken
SqsEvents_First(events) ==
    LET sqs == {i \in DOMAIN events : events[i].kind = "sqs"}
    IN  IF sqs = {} THEN <<>>
        ELSE <<events[CHOOSE i \in sqs : \A j \in sqs : i <= j].sqs>>

RECURSIVE SqsEvents(_)
SqsEvents(events) ==
    IF events = <<>> THEN <<>>
    ELSE (IF Head(events).kind = "sqs" THEN <<Head(events).sqs>> ELSE <<>>)
         \o SqsEvents(Tail(events))

\* the (functionName, queueEvent) pairs in the order lines 240-255 visit them
RECURSIVE Pairs(_)
Pairs(functions) ==
    IF functions = <<>> THEN <<>>
    ELSE LET f == Head(functions)
             queues == SqsEvents(f.events)
         IN  [i \in 1..Len(queues) |-> [functionName |-> f.name, queueEvent |-> queues[i]]]
             \o Pairs(Tail(functions))

Pollers == DOMAIN status
PollerIds == UNION {1..Len(Pairs(s.functions)) : s \in Services}
queueEventOf(p) == Pairs(service.functions)[p].queueEvent

\* the locals of one call of next: the Messages it received, how far the invocation
\* of that batch is, the deleteMessageBatch calls issued for it; n is the parity of
\* the calls of next so far
NoCycle == [Messages |-> Undefined, inv |-> "none", deletes |-> <<>>, n |-> 0]

GetQueueUrlOp(QueueName) == [op |-> "getQueueUrl", QueueName |-> QueueName]
ReceiveOp(url, queueEvent) ==
    [op |-> "receiveMessage", QueueUrl |-> url,
     MaxNumberOfMessages |-> IF queueEvent.t = "event" THEN queueEvent.batchSize ELSE Undefined,
     WaitTimeSeconds |-> 1]
InvokeOp(Messages, hung) == [op |-> "invoke", Messages |-> Messages, hung |-> hung]
DeleteOp(url, Entries) == [op |-> "deleteMessageBatch", Entries |-> Entries, QueueUrl |-> url]

\* (Messages || []).map(({ MessageId: Id, ReceiptHandle }) => ({ Id, ReceiptHandle }))
Entries(Messages) ==
    LET list == IF Truthy(Messages) THEN Messages.a ELSE <<>>
    IN  [i \in 1..Len(list) |->
            [Id |-> list[i].MessageId, ReceiptHandle |-> list[i].ReceiptHandle]]

Upd(p, st, url, ops, cyc) ==
    /\ status' = [status EXCEPT ![p] = st]
    /\ QueueUrl' = [QueueUrl EXCEPT ![p] = url]
    /\ pending' = [pending EXCEPT ![p] = ops]
    /\ cycle' = [cycle EXCEPT ![p] = cyc]

\* a faulty variant: a failed await is answered with a new receiveMessage
Rejected_Retry(p, rest, cyc) ==
    Upd(p, "rejected", QueueUrl[p], rest \cup {ReceiveOp(QueueUrl[p], queueEventOf(p))}, cyc)

\* an await that throws inside createQueueReadable or next: the chain ends with a
\* rejected promise nobody handles
Rejected(p, rest, cyc) == Upd(p, "rejected", QueueUrl[p], rest, cyc)

\* a faulty variant: the pollers share one lock, and a poller polls again only while
\* no other poller's invocation is in flight
next_Serialized(p, url, rest) ==
    /\ \A q \in DOMAIN pending \ {p} : \A op \in pending[q] : op.op # "invoke"
    /\ Upd(p, "running", url, rest \cup {ReceiveOp(url, queueEventOf(p))},
           [NoCycle EXCEPT !.n = 1 - cycle[p].n])

\* next(): a fresh call issues receiveMessage; n is the parity of the calls so far
next(p, url, rest) ==
    Upd(p, "running", url, rest \cup {ReceiveOp(url, queueEventOf(p))},
        [NoCycle EXCEPT !.n = 1 - cycle[p].n])

\* lines 172-180: the continuation of createQueueReadable once getQueueUrl answered
AfterGetQueueUrl(p, rest, err, url) ==
    IF fromCallback(err) = "rejected" THEN Rejected(p, rest, cycle[p])
    ELSE next(p, url, rest)

\* a faulty variant: deleteMessageBatch is not awaited and next is called at once
AfterInvoke_NoAwait(p, rest, cyc, err) ==
    IF fromCallback(err) = "rejected" THEN Rejected(p, rest, cyc)
    ELSE LET del == DeleteOp(QueueUrl[p], Entries(cyc.Messages))
         IN  Upd(p, "running", QueueUrl[p],
                 rest \cup {del, ReceiveOp(QueueUrl[p], queueEventOf(p))},
                 [cyc EXCEPT !.deletes = Append(@, del)])

\* lines 196-210: the continuation of next once the invocation's promise settled;
\* cyc is the call's locals with the completion recorded
AfterInvoke(p, rest, cyc, err) ==
    IF fromCallback(err) = "rejected" THEN Rejected(p, rest, cyc)
    ELSE LET del == DeleteOp(QueueUrl[p], Entries(cyc.Messages))
         IN  Upd(p, "running", QueueUrl[p], rest \cup {del},
                 [cyc EXCEPT !.deletes = Append(@, del)])

\* a faulty variant: the invocation is not awaited and deleteMessageBatch is issued at once
Invoke_DeleteEarly(p, rest, Messages, threw, hung) ==
    LET cyc == [cycle[p] EXCEPT !.Messages = Messages]
        del == DeleteOp(QueueUrl[p], Entries(Messages))
    IN  IF threw THEN Rejected(p, rest, [cyc EXCEPT !.inv = "threw"])
        ELSE Upd(p, "running", QueueUrl[p], rest \cup {InvokeOp(Messages, hung), del},
                 [cyc EXCEPT !.inv = "pending", !.deletes = Append(@, del)])

\* line 194 and eventHandler (lines 77-125) up to the call of the handler: threw is
\* a handler (or createHandler) that throws before it returns, hung one that never
\* signals completion
Invoke(p, rest, Messages, threw, hung) ==
    LET cyc == [cycle[p] EXCEPT !.Messages = Messages]
    IN  IF ~Truthy(Messages) THEN AfterInvoke(p, rest, cyc, FALSE)
        ELSE IF threw \/ getQueueName(service, queueEventOf(p)).kind = "throw"
        THEN Rejected(p, rest, [cyc EXCEPT !.inv = "threw"])
        ELSE Upd(p, "running", QueueUrl[p], rest \cup {InvokeOp(Messages, hung)},
                 [cyc EXCEPT !.inv = "pending"])

\* lines 182-194 and 210: the continuation of next once receiveMessage answered
AfterReceive(p, rest, reply, threw, hung) ==
    IF fromCallback(reply.err) = "rejected" THEN Rejected(p, rest, cycle[p])
    ELSE IF Truthy(reply.Messages) THEN Invoke(p, rest, reply.Messages, threw, hung)
    ELSE next(p, QueueUrl[p], rest)

\* a faulty variant: the queue URL is looked up anew after every delete
AfterDelete_Rebind(p, rest, err) ==
    Upd(p, "running", QueueUrl[p],
        rest \cup {GetQueueUrlOp(getQueueName(service, queueEventOf(p)).value)},
        cycle[p])

\* lines 205-210: deleteMessageBatch's callback is () => cb(), its error is dropped
AfterDelete(p, rest, err) ==
    IF fromCallback(FALSE) = "rejected" THEN Rejected(p, rest, cycle[p])
    ELSE next(p, QueueUrl[p], rest)

-----------------------------------------------------------------------------
(* offlineStartInit. *)

NoCreate == [call |-> "none", promise |-> "none"]

HasResources(svc) == Truthy(svc) /\ Truthy(svc.resources) /\ Truthy(svc.resources.Resources)
ResourceNames(svc) == IF HasResources(svc) THEN DOMAIN svc.resources.Resources.o ELSE {}
QueueResources(svc) ==
    {r \in ResourceNames(svc) : svc.resources.Resources.o[r].Type = QueueType}

\* lines 159-163: return client.createQueue(params).promise() inside try/catch; the
\* returned promise is not awaited there, so its rejection passes the catch clause
createInitialQueue(ok) == IF ok THEN "resolved" ELSE "rejected"

\* a faulty variant: a declaration whose queue name cannot be resolved is polled all
\* the same, with no QueueName
Launch_Unresolved ==
    LET pairs == Pairs(service.functions)
        name(p) == getQueueName(service, pairs[p].queueEvent)
    IN  /\ status' = [p \in DOMAIN pairs |-> "running"]
        /\ pending' = [p \in DOMAIN pairs |->
                        IF name(p).kind = "throw" THEN {GetQueueUrlOp(Undefined)}
                        ELSE {GetQueueUrlOp(name(p).value)}]
        /\ UNCHANGED <<QueueUrl, cycle>>

\* a faulty variant: a throw of getQueueName leaves the loop over the declarations,
\* and the declarations after it get no poller
Launch_AbortOnThrow ==
    LET pairs == Pairs(service.functions)
        name(p) == getQueueName(service, pairs[p].queueEvent)
        reached(p) == \A q \in 1..(p - 1) : name(q).kind # "throw"
    IN  /\ status' = [p \in DOMAIN pairs |->
                        IF ~reached(p) THEN "unlaunched"
                        ELSE IF name(p).kind = "throw" THEN "rejected" ELSE "running"]
        /\ pending' = [p \in DOMAIN pairs |->
                        IF ~reached(p) \/ name(p).kind = "throw" THEN {}
                        ELSE {GetQueueUrlOp(name(p).value)}]
        /\ UNCHANGED <<QueueUrl, cycle>>

\* lines 240-255: every createQueueReadable is called and none is awaited; each runs
\* to its first await (lines 167-179), a throw of getQueueName rejecting its promise
Launch ==
    LET pairs == Pairs(service.functions)
        name(p) == getQueueName(service, pairs[p].queueEvent)
    IN  /\ status' = [p \in DOMAIN pairs |->
                        IF name(p).kind = "throw" THEN "rejected" ELSE "running"]
        /\ pending' = [p \in DOMAIN pairs |->
                        IF name(p).kind = "throw" THEN {}
                        ELSE {GetQueueUrlOp(name(p).value)}]
        /\ UNCHANGED <<QueueUrl, cycle>>

\* lines 216-238: the createInitialQueue of every queue resource is called, then
\* Promise.all is awaited; with nothing to await the pollers are launched at once
StartInit ==
    /\ boot = "idle"
    /\ creates' = [r \in DOMAIN creates |->
                      IF r \in QueueResources(service)
                      THEN [call |-> "pending", promise |-> "pending"] ELSE NoCreate]
    /\ IF QueueResources(service) = {}
       THEN boot' = "returned" /\ Launch
       ELSE boot' = "awaitAll" /\ UNCHANGED <<status, QueueUrl, pending, cycle>>
    /\ UNCHANGED <<manifest, rIn, rOut>>

\* a faulty variant: offlineStartInit waits for the first createQueue that succeeds
\* and launches the pollers then
CreateQueueReply_First(r) ==
    /\ r \in DOMAIN creates
    /\ creates[r].call = "pending"
    /\ \E ok \in BOOLEAN :
          /\ creates' = [creates EXCEPT ![r] = [call |-> IF ok THEN "ok" ELSE "error",
                                                 promise |-> createInitialQueue(ok)]]
          /\ IF boot # "awaitAll"
             THEN UNCHANGED <<boot, status, QueueUrl, pending, cycle>>
             ELSE IF creates'[r].promise = "rejected"
             THEN boot' = "rejected" /\ UNCHANGED <<status, QueueUrl, pending, cycle>>
             ELSE boot' = "returned" /\ Launch
    /\ UNCHANGED <<manifest, rIn, rOut>>

\* the backend answers a createQueue call; Promise.all (line 233) rejects with the
\* first rejection and resolves with the last resolution
CreateQueueReply(r) ==
    /\ r \in DOMAIN creates
    /\ creates[r].call = "pending"
    /\ \E ok \in BOOLEAN :
          /\ creates' = [creates EXCEPT ![r] = [call |-> IF ok THEN "ok" ELSE "error",
                                                 promise |-> createInitialQueue(ok)]]
          /\ IF boot # "awaitAll"
             THEN UNCHANGED <<boot, status, QueueUrl, pending, cycle>>
             ELSE IF creates'[r].promise = "rejected"
             THEN boot' = "rejected" /\ UNCHANGED <<status, QueueUrl, pending, cycle>>
             ELSE IF \A q \in QueueResources(service) : creates'[q].promise = "resolved"
             THEN boot' = "returned" /\ Launch
             ELSE UNCHANGED <<boot, status, QueueUrl, pending, cycle>>
    /\ UNCHANGED <<manifest, rIn, rOut>>

-----------------------------------------------------------------------------
(* The answers a poller waits for. *)

GetQueueUrlReply(p) ==
    /\ p \in Pollers
    /\ \E op \in pending[p] :
          /\ op.op = "getQueueUrl"
          /\ \E err \in BOOLEAN :
                \* the backend knows no queue without a name
                /\ (~err => op.QueueName.t = "string" /\ op.QueueName.s # <<>>)
                /\ AfterGetQueueUrl(p, pending[p] \ {op}, err,
                                    IF err THEN <<>> ELSE UrlOf(op.QueueName.s))
    /\ UNCHANGED <<manifest, boot, creates, rIn, rOut>>

ReceiveReply(p) ==
    /\ p \in Pollers
    /\ \E op \in pending[p] :
          /\ op.op = "receiveMessage"
          /\ \E reply \in ReceiveReplies(op), threw \in BOOLEAN, hung \in BOOLEAN :
                AfterReceive(p, pending[p] \ {op}, reply, threw, hung)
    /\ UNCHANGED <<manifest, boot, creates, rIn, rOut>>

\* lines 90-95: the handler's completion, lambdaContext's callback, passes (err, data) on
InvokeComplete(p) ==
    /\ p \in Pollers
    /\ \E op \in pending[p] :
          /\ op.op = "invoke"
          /\ ~op.hung
          /\ \E err \in BOOLEAN :
                AfterInvoke(p, pending[p] \ {op},
                            [cycle[p] EXCEPT !.inv = IF err THEN "error" ELSE "success"],
                            err)
    /\ UNCHANGED <<manifest, boot, creates, rIn, rOut>>

DeleteReply(p) ==
    /\ p \in Pollers
    /\ \E op \in pending[p] :
          /\ op.op = "deleteMessageBatch"
          /\ \E err \in BOOLEAN : AfterDelete(p, pending[p] \ {op}, err)
    /\ UNCHANGED <<manifest, boot, creates, rIn, rOut>>

-----------------------------------------------------------------------------
(* The plugin. *)

NotCalled == [kind |-> "none"]
NoInput == [service |-> "A", queueEvent |-> Undefined]

Init ==
    /\ manifest \in {"A", "B"}
    /\ boot = "idle"
    /\ creates = [r \in ResourceNames(service) |-> NoCreate]
    /\ status = [p \in DOMAIN Pairs(service.functions) |-> "unlaunched"]
    /\ QueueUrl = [p \in DOMAIN Pairs(service.functions) |-> <<>>]
    /\ pending = [p \in DOMAIN Pairs(service.functions) |-> {}]
    /\ cycle = [p \in DOMAIN Pairs(service.functions) |-> NoCycle]
    /\ rIn = NoInput
    /\ rOut = NotCalled

Next ==
    \/ StartInit
    \/ \E r \in DOMAIN creates : CreateQueueReply(r)
    \/ \E p \in Pollers : GetQueueUrlReply(p)
    \/ \E p \in Pollers : ReceiveReply(p)
    \/ \E p \in Pollers : InvokeComplete(p)
    \/ \E p \in Pollers : DeleteReply(p)

Spec == Init /\ [][Next]_vars

\* every call the backend received is answered and every handler that is not hung
\* completes; the event loop then runs the continuation
FairSpec ==
    /\ Spec
    /\ WF_vars(StartInit)
    /\ WF_vars(\E r \in DOMAIN creates : CreateQueueReply(r))
    /\ \A p \in PollerIds :
          /\ WF_vars(GetQueueUrlReply(p))
          /\ WF_vars(ReceiveReply(p))
          /\ WF_vars(InvokeComplete(p))
          /\ WF_vars(DeleteReply(p))

-----------------------------------------------------------------------------
(* The polling loop. *)

Has(p, kind) == \E op \in pending[p] : op.op = kind
NonEmpty(Messages) == Messages.t = "array" /\ Messages.a # <<>>
Completed(p) == cycle[p].inv \in {"success", "error"}

\* C1: no deleteMessageBatch call of a batch is issued before the handler invocation
\* of that batch has signalled completion: while the invocation is pending or not
\* started, no delete of the batch has been issued and none is outstanding.
C1_DeleteOnlyAfterCompletion ==
    \A p \in Pollers :
        (cycle[p].deletes # <<>> \/ Has(p, "deleteMessageBatch"))
            => Completed(p) /\ ~Has(p, "invoke")

\* a poller waits for the answer to the delete of a two-message batch whose
\* invocation succeeded
C1_Witness ==
    \E p \in Pollers :
        /\ cycle[p].inv = "success"
        /\ NonEmpty(cycle[p].Messages) /\ Len(cycle[p].Messages.a) = 2
        /\ Has(p, "deleteMessageBatch")
        /\ Len(cycle[p].deletes) = 1

\* C2: whenever the invocation of a non-empty batch has completed, with success or
\* with an error, the poller has issued the batch-delete of that batch (the
\* continuation that runs on completion issues it).
C2_DeleteWhateverTheOutcome ==
    \A p \in Pollers :
        (NonEmpty(cycle[p].Messages) /\ Completed(p))
            => cycle[p].deletes # <<>>

\* C3: the polling loop never exits: a poller whose invocation of a non-empty batch
\* has completed, with success or with an error, is still running and has an
\* operation outstanding (the delete, after which it receives again).
C3_LoopNeverExits ==
    \A p \in Pollers :
        (NonEmpty(cycle[p].Messages) /\ Completed(p))
            => status[p] = "running" /\ pending[p] # {}

\* C4: a poller whose receive returned zero messages (no Messages field, or an empty
\* list) invokes no handler and issues no deleteMessageBatch in that cycle.
C4_NothingOnZeroMessages ==
    \A p \in Pollers :
        ~NonEmpty(cycle[p].Messages)
            => /\ cycle[p].inv = "none"
               /\ cycle[p].deletes = <<>>
               /\ ~Has(p, "invoke") /\ ~Has(p, "deleteMessageBatch")

\* C5: for a non-empty batch whose invocation has completed, exactly one
\* deleteMessageBatch call has been issued, and its entries are the
\* (MessageId, ReceiptHandle) pairs of the batch's messages, one per message.
C5_ExactlyOneDelete ==
    \A p \in Pollers :
        (NonEmpty(cycle[p].Messages) /\ Completed(p))
            => /\ Len(cycle[p].deletes) = 1
               /\ LET M == cycle[p].Messages.a
                      E == cycle[p].deletes[1].Entries
                  IN  /\ Len(E) = Len(M)
                      /\ \A i \in 1..Len(M) :
                            /\ E[i].Id = M[i].MessageId
                            /\ E[i].ReceiptHandle = M[i].ReceiptHandle

\* C6: within one poller receive -> invoke -> delete is sequential: at most one
\* operation is outstanding, so at most one invocation is in flight and no
\* receiveMessage is issued while an invocation or a delete is outstanding.
C6_OneStepAtATime ==
    \A p \in Pollers :
        /\ Cardinality(pending[p]) <= 1
        /\ Has(p, "receiveMessage") => ~Has(p, "invoke") /\ ~Has(p, "deleteMessageBatch")
        /\ Has(p, "invoke") => cycle[p].inv = "pending"

\* a poller is invoking the handler in a later call of next than its first
C6_Witness ==
    \E p \in Pollers :
        /\ Has(p, "invoke")
        /\ cycle[p].n = 0
        /\ NonEmpty(cycle[p].Messages)

\* poller p waits for an answer that can come: it has an operation outstanding
\* that is not a hung invocation
Answerable(p) ==
    /\ p \in Pollers
    /\ \E op \in pending[p] : op.op = "invoke" => ~op.hung

\* poller p moves on: an operation of its own is outstanding that was not before
Moves(p) ==
    /\ p \in Pollers
    /\ pending'[p] # pending[p] \/ cycle'[p].n # cycle[p].n

\* C7: pollers are independent: whatever the other pollers do, a hung invocation
\* included, a poller that waits for an answer that can come does not wait for ever:
\* it keeps moving on (receiving, invoking, deleting) unless its own chain ended or
\* its own handler hangs.
C7_PollersIndependent ==
    \A p \in PollerIds : []<>(~Answerable(p)) \/ []<><<Moves(p)>>_vars

\* two pollers are mid-invocation at the same time, one of them hung for good, and
\* the other in a later call of next than its first
C7_Witness ==
    \E p, q \in Pollers :
        /\ p # q
        /\ \E op \in pending[q] : op.op = "invoke" /\ op.hung
        /\ \E op \in pending[p] : op.op = "invoke" /\ ~op.hung
        /\ cycle[p].n = 0

\* C8: when the backend rejects a createQueue call, createInitialQueue swallows the
\* error: its promise is not rejected, offlineStartInit does not fail, and once every
\* call is answered the pollers have been launched.
C8_CreateFailureSwallowed ==
    \A r \in DOMAIN creates :
        creates[r].call = "error"
            => /\ creates[r].promise # "rejected"
               /\ boot # "rejected"
               /\ (\A q \in DOMAIN creates : creates[q].call # "pending")
                      => boot = "returned" /\ \A p \in Pollers : status[p] # "unlaunched"

-----------------------------------------------------------------------------
(* getQueueName on its own: the declarations and the catalogs it is called with. *)

ServiceNamed(id) ==
    CASE id = "A" -> ServiceA
      [] id = "B" -> ServiceB
      [] id = "C" -> ServiceC
      [] OTHER -> ServiceD

\* strings of 1, 2, 5, 6 and 7 colon-delimited fields, one with an empty sixth
\* field, and the empty string
ArnStrings ==
    { ArnQ1, ArnQ2, NameQ1, <<"a", ":", "q", "1">>,
      <<"a", ":", "a", ":", "s", ":", "r", ":", "1">>,
      <<"a", ":", "a", ":", "s", ":", "r", ":", "1", ":">>,
      <<"a", ":", "a", ":", "s", ":", "r", ":", "1", ":", "q", "1", ":", "x">>,
      <<>> }

ArnValues ==
    { Undefined, Null, Num(5), Str(ArnQ1), Str(ArnQ2), Str(<<"a", ":", "q", "1">>),
      Ref(Undefined),
      Ref(Arr(<<Str(<<"Q", "1">>), Str(<<"A", "r", "n">>)>>)),
      Ref(Arr(<<Str(<<"Q", "2">>)>>)),
      Ref(Arr(<<Str(<<"T">>), Str(<<"A", "r", "n">>)>>)),
      Ref(Arr(<<Str(<<"Q", "9">>), Str(<<"A", "r", "n">>)>>)),
      Ref(Arr(<<>>)),
      Ref(Str(<<"T">>)),
      Ref(Num(1)) }

QueueNameValues == {Undefined, Str(NameQ3), Str(<<>>), Num(7)}

QueueEvents ==
    {Str(a) : a \in ArnStrings}
    \cup {Event(a, q, Num(1)) : a \in ArnValues, q \in QueueNameValues}

InitResolve ==
    /\ manifest = "A"
    /\ boot = "idle"
    /\ creates = [r \in ResourceNames(service) |-> NoCreate]
    /\ status = [p \in DOMAIN Pairs(service.functions) |-> "unlaunched"]
    /\ QueueUrl = [p \in DOMAIN Pairs(service.functions) |-> <<>>]
    /\ pending = [p \in DOMAIN Pairs(service.functions) |-> {}]
    /\ cycle = [p \in DOMAIN Pairs(service.functions) |-> NoCycle]
    /\ rIn \in [service : {"A", "B", "C", "D"}, queueEvent : QueueEvents]
    /\ rOut = NotCalled

CallGetQueueName ==
    /\ rOut = NotCalled
    /\ rOut' = getQueueName(ServiceNamed(rIn.service), rIn.queueEvent)
    /\ UNCHANGED <<manifest, boot, creates, status, QueueUrl, pending, cycle, rIn>>

NextResolve == CallGetQueueName

SpecResolve == InitResolve /\ [][NextResolve]_vars

\* the catalog of a manifest: resource name -> resource, empty without Resources
Catalog(svc) ==
    IF svc.resources.t = "resources" /\ svc.resources.Resources.t = "object"
    THEN svc.resources.Resources.o ELSE <<>>

\* the resource a reference names has a string QueueName
NamesQueue(svc, ref) ==
    /\ ref.t = "ref" /\ ref.GetAtt.t = "array" /\ Len(ref.GetAtt.a) >= 1
    /\ ref.GetAtt.a[1].t = "string"
    /\ LET r == ref.GetAtt.a[1].s
       IN  /\ r \in DOMAIN Catalog(svc)
           /\ Catalog(svc)[r].Properties.t = "object"
           /\ "QueueName" \in DOMAIN Catalog(svc)[r].Properties.o
           /\ Catalog(svc)[r].Properties.o["QueueName"].t = "string"

QueueNameOf(svc, ref) == Catalog(svc)[ref.GetAtt.a[1].s].Properties.o["QueueName"]

\* the recognised shapes of a declaration
Recognised(svc, qe) ==
    \/ qe.t = "string"
    \/ qe.t = "event" /\ qe.arn.t = "string"
    \/ qe.t = "event" /\ qe.queueName.t = "string"
    \/ qe.t = "event" /\ NamesQueue(svc, qe.arn)

\* C9: for every declaration that matches none of the recognised shapes (neither arn
\* nor string queueName, an arn object that is no Fn::GetAtt reference, a reference
\* to a missing resource or to one without a string QueueName) getQueueName throws
\* 'QueueName not found': it returns nothing and throws nothing else.
C9_UnrecognisedIsNotFound ==
    (rOut # NotCalled /\ ~Recognised(ServiceNamed(rIn.service), rIn.queueEvent))
        => rOut = Throw(QueueNameNotFound)

\* the positions of the colons of s, and the text between the fifth colon and the
\* sixth (or the end)
Colons(s) == {i \in 1..Len(s) : s[i] = ":"}
NthColon(s, k) == CHOOSE i \in Colons(s) : Cardinality({j \in Colons(s) : j <= i}) = k
SixthField(s) ==
    LET from == NthColon(s, 5) + 1
        to == IF Cardinality(Colons(s)) >= 6 THEN NthColon(s, 6) - 1 ELSE Len(s)
    IN  [i \in 1..(to - from + 1) |-> s[from + i - 1]]

\* C10: getQueueName returns the expected name for each of the four declaration
\* shapes: the sixth colon-delimited field of a plain ARN string and of the string
\* arn of an object, the queueName of an object with a string queueName verbatim, and
\* the referenced resource's Properties.QueueName, when a string, for an arn that is
\* an Fn::GetAtt reference. A declaration has one of the object shapes when it has
\* that shape and no other: a string or reference arn beside a string queueName
\* makes it a declaration of two shapes.
C10_FourShapes ==
    LET svc == ServiceNamed(rIn.service)
        qe == rIn.queueEvent
    IN  rOut # NotCalled =>
          /\ (qe.t = "string" /\ Cardinality(Colons(qe.s)) >= 5)
                => rOut = Return(Str(SixthField(qe.s)))
          /\ (qe.t = "event" /\ qe.arn.t = "string" /\ qe.queueName.t # "string"
                /\ Cardinality(Colons(qe.arn.s)) >= 5)
                => rOut = Return(Str(SixthField(qe.arn.s)))
          /\ (qe.t = "event" /\ qe.queueName.t = "string"
                /\ qe.arn.t \notin {"string", "ref"})
                => rOut = Return(qe.queueName)
          /\ (qe.t = "event" /\ qe.queueName.t # "string" /\ NamesQueue(svc, qe.arn))
                => rOut = Return(QueueNameOf(svc, qe.arn))

\* a reference to resource Q2 of manifest A was resolved to its QueueName, q2
C10_Witness ==
    /\ rIn.service = "A"
    /\ rIn.queueEvent.t = "event"
    /\ rIn.queueEvent.queueName.t = "undefined"
    /\ NamesQueue(ServiceA, rIn.queueEvent.arn)
    /\ rOut = Return(Str(NameQ2))

\* C11: a literal queueName is the highest-priority override: for every object
\* declaration with a string queueName, getQueueName returns that queueName verbatim,
\* also when the declaration carries beside it an arn that names a queue (a string
\* with a sixth field, or a reference).
C11_QueueNameOverrides ==
    LET qe == rIn.queueEvent
    IN  (/\ rOut # NotCalled
         /\ qe.t = "event"
         /\ qe.queueName.t = "string" /\ qe.queueName.s # <<>>
         /\ qe.arn.t = "string" => Cardinality(Colons(qe.arn.s)) >= 5)
            => rOut = Return(qe.queueName)

-----------------------------------------------------------------------------
(* Startup of the pollers. *)

\* the queue name of poller p's declaration cannot be resolved
ResolutionFails(p) == getQueueName(service, queueEventOf(p)).kind = "throw"

\* C12: a poller whose queue-name resolution fails is never started: at no point
\* has it a getQueueUrl, a receiveMessage, a handler invocation or a
\* deleteMessageBatch outstanding, it is bound to no queue URL and it has begun no
\* call of next.
C12_NoPollerWithoutQueueName ==
    \A p \in Pollers :
        ResolutionFails(p)
            => /\ pending[p] = {}
               /\ QueueUrl[p] = <<>>
               /\ cycle[p] = NoCycle
               /\ status[p] \in {"unlaunched", "rejected"}

\* the pollers were launched, the one whose resolution fails is rejected, and
\* another poller of the same function is in a later call of next
C12_Witness ==
    /\ boot = "returned"
    /\ \E p, q \in Pollers :
          /\ ResolutionFails(p) /\ status[p] = "rejected"
          /\ ~ResolutionFails(q) /\ Has(q, "receiveMessage") /\ cycle[q].n = 0

-----------------------------------------------------------------------------
(* The event eventHandler builds (lines 97-118), on its own. *)

\* longest message list the event is built from
MaxBatch == 2

\* messages as the backend returns them; two of them may differ in the body only
FullMessage ==
    {[MessageId |-> i, ReceiptHandle |-> <<"rh", i>>, Body |-> b,
      Attributes |-> "attributes", MessageAttributes |-> "messageAttributes",
      MD5OfBody |-> <<"md5", b>>] : i \in 1..NumMsgIds, b \in {"x", "y"}}

\* one element of Records; a declaration that is a plain string has no arn property
Record(queueEvent, m) ==
    [messageId |-> m.MessageId,
     receiptHandle |-> m.ReceiptHandle,
     body |-> m.Body,
     attributes |-> m.Attributes,
     messageAttributes |-> m.MessageAttributes,
     md5OfBody |-> m.MD5OfBody,
     eventSource |-> "aws:sqs",
     eventSourceARN |-> IF queueEvent.t = "event" THEN queueEvent.arn ELSE Undefined,
     awsRegion |-> "us-west-2"]

\* event = { Records: messages.map(...) }
BuildEvent(queueEvent, messages) ==
    [Records |-> [i \in 1..Len(messages) |-> Record(queueEvent, messages[i])]]

\* the declarations of the manifests, and two that carry an arn beside a queueName
BuildQueueEvents ==
    UNION {{Pairs(s.functions)[i].queueEvent : i \in DOMAIN Pairs(s.functions)} :
           s \in Services}
    \cup {Event(Str(ArnQ1), Str(NameQ3), Num(1)),
          Event(Ref(Arr(<<Str(<<"Q", "1">>), Str(<<"A", "r", "n">>)>>)), Str(NameQ3), Num(1))}

InitBuild ==
    /\ manifest = "A"
    /\ boot = "idle"
    /\ creates = [r \in ResourceNames(service) |-> NoCreate]
    /\ status = [p \in DOMAIN Pairs(service.functions) |-> "unlaunched"]
    /\ QueueUrl = [p \in DOMAIN Pairs(service.functions) |-> <<>>]
    /\ pending = [p \in DOMAIN Pairs(service.functions) |-> {}]
    /\ cycle = [p \in DOMAIN Pairs(service.functions) |-> NoCycle]
    /\ rIn \in [queueEvent : BuildQueueEvents,
                messages : UNION {[1..k -> FullMessage] : k \in 0..MaxBatch}]
    /\ rOut = NotCalled

\* eventHandler up to line 118: getQueueName (line 80) throws before the event is built
CallEventHandler ==
    /\ rOut = NotCalled
    /\ rOut' = IF getQueueName(service, rIn.queueEvent).kind = "throw"
               THEN getQueueName(service, rIn.queueEvent)
               ELSE Return(BuildEvent(rIn.queueEvent, rIn.messages))
    /\ UNCHANGED <<manifest, boot, creates, status, QueueUrl, pending, cycle, rIn>>

NextBuild == CallEventHandler

SpecBuild == InitBuild /\ [][NextBuild]_vars

\* Records has one record per message, in the order of the messages, each with the
\* message's fields and the constant event-source tag
RecordsFollowMessages ==
    rOut.kind = "return" =>
        LET R == rOut.value.Records
            M == rIn.messages
        IN  /\ Len(R) = Len(M)
            /\ \A i \in 1..Len(M) :
                  /\ R[i].messageId = M[i].MessageId
                  /\ R[i].receiptHandle = M[i].ReceiptHandle
                  /\ R[i].body = M[i].Body
                  /\ R[i].md5OfBody = M[i].MD5OfBody
                  /\ R[i].eventSource = "aws:sqs"

\* C13: the event built for a batch has exactly one record per received message, in
\* the order the receive call returned them (zero records for an empty list), and
\* every record carries the constant event-source tag and an identifier of the
\* originating trigger (eventSourceARN is defined), whatever the shape of the
\* trigger's declaration.
C13_RecordsCarryTheTrigger ==
    /\ RecordsFollowMessages
    /\ rOut.kind = "return" =>
          \A i \in 1..Len(rOut.value.Records) :
              rOut.value.Records[i].eventSourceARN.t # "undefined"

-----------------------------------------------------------------------------
(* The parameters createInitialQueue sends (lines 130-157), on their own. *)

\* a property of an object literal, and an object whose properties keep their order
Entry(key, value) == [key |-> key, value |-> value]
Map(entries) == [t |-> "map", entries |-> entries]

DigitChar(d) == <<"0", "1", "2", "3", "4", "5", "6", "7", "8", "9">>[d + 1]

\* Number.prototype.toString of a natural number
RECURSIVE NumToString(_)
NumToString(n) ==
    IF n < 10 THEN <<DigitChar(n)>>
    ELSE NumToString(n \div 10) \o <<DigitChar(n % 10)>>

\* JSON.stringify of a string: quoted, with quotes and backslashes escaped
RECURSIVE Escape(_)
Escape(s) ==
    IF s = <<>> THEN <<>>
    ELSE (IF Head(s) \in {"\"", "\\"} THEN <<"\\", Head(s)>> ELSE <<Head(s)>>)
         \o Escape(Tail(s))

Quote(s) == <<"\"">> \o Escape(s) \o <<"\"">>

\* the members of JSON.stringify of an object whose values are strings or
\* undefined: a property whose value is undefined is left out
RECURSIVE Members(_, _)
Members(entries, first) ==
    IF entries = <<>> THEN <<>>
    ELSE LET e == Head(entries)
         IN  IF e.value.t # "string" THEN Members(Tail(entries), first)
             ELSE (IF first THEN <<>> ELSE <<",">>)
                  \o Quote(e.key) \o <<":">> \o Quote(e.value.s)
                  \o Members(Tail(entries), FALSE)

JSONstringify(entries) == <<"{">> \o Members(entries, TRUE) \o <<"}">>

\* lines 145-151: what params.Attributes[attribute][attr] is set to
Leaf(v) ==
    CASE v.t = "string" -> Return(v)
      [] v.t = "number" -> Return(Str(NumToString(v.n)))
      [] v.t = "ref" ->
            IF v.GetAtt.t = "array" THEN Return(At(v.GetAtt.a, 1))
            ELSE IF v.GetAtt.t = "string" /\ v.GetAtt.s # <<>>
            THEN Return(Str(<<v.GetAtt.s[1]>>))
            ELSE IF v.GetAtt.t \in {"undefined", "null"} THEN Throw(TypeError)
            ELSE Return(Undefined)
      [] OTHER -> Throw(TypeError)

\* lines 137-155: what params.Attributes[attribute] is set to; the value is a string,
\* a number, a nested mapping, undefined or null
Attribute(v) ==
    CASE v.t = "string" -> Return(v)
      [] v.t = "number" -> Return(Str(NumToString(v.n)))
      [] v.t = "map" ->
            IF \E i \in DOMAIN v.entries : Leaf(v.entries[i].value).kind = "throw"
            THEN Throw(TypeError)
            ELSE Return(Str(JSONstringify(
                     [i \in DOMAIN v.entries |->
                         Entry(v.entries[i].key, Leaf(v.entries[i].value).value)])))
      [] OTHER -> Throw(TypeError)

KeyQueueName == <<"Q", "N">>
KeyVisibilityTimeout == <<"V", "T">>
KeyRedrivePolicy == <<"R", "P">>
KeyMaxReceiveCount == <<"m", "R", "C">>
KeyDeadLetterTargetArn == <<"d", "L", "T", "A">>

Find(queue, key) ==
    IF \E i \in DOMAIN queue : queue[i].key = key
    THEN queue[CHOOSE i \in DOMAIN queue : queue[i].key = key].value
    ELSE Undefined

\* lines 130-157: params, or the TypeError the loop throws
createQueueParams(queue) ==
    LET attrs == {i \in DOMAIN queue : queue[i].key # KeyQueueName}
    IN  IF \E i \in attrs : Attribute(queue[i].value).kind = "throw"
        THEN Throw(TypeError)
        ELSE Return([QueueName |-> Find(queue, KeyQueueName),
                     Attributes |-> [k \in {queue[i].key : i \in attrs} |->
                                        Attribute(Find(queue, k)).value]])

\* a reference to the Arn of resource DLQ
RefDLQ == Ref(Arr(<<Str(<<"D", "L", "Q">>), Str(<<"A", "r", "n">>)>>))

VisibilityTimeouts ==
    {Undefined, Num(0), Num(7), Num(30), Num(120), Str(<<"3", "0">>), Str(<<>>)}

RedrivePolicies ==
    { Undefined,
      Map(<<>>),
      Map(<<Entry(KeyMaxReceiveCount, Num(5)), Entry(KeyDeadLetterTargetArn, RefDLQ)>>),
      Map(<<Entry(KeyDeadLetterTargetArn, RefDLQ), Entry(KeyMaxReceiveCount, Str(<<"5">>))>>),
      Map(<<Entry(KeyMaxReceiveCount, Num(12)),
            Entry(KeyDeadLetterTargetArn, Str(<<"a", ":", "\"", "d", "\"">>))>>),
      Map(<<Entry(KeyDeadLetterTargetArn, Ref(Arr(<<>>)))>>),
      Map(<<Entry(KeyDeadLetterTargetArn, Null)>>) }

\* the Properties of a queue resource: QueueName first or last, the attributes that
\* are given in between
QueueDefinitions ==
    {(IF first THEN <<Entry(KeyQueueName, Str(NameQ1))>> ELSE <<>>)
     \o (IF vt = Undefined THEN <<>> ELSE <<Entry(KeyVisibilityTimeout, vt)>>)
     \o (IF rp = Undefined THEN <<>> ELSE <<Entry(KeyRedrivePolicy, rp)>>)
     \o (IF first THEN <<>> ELSE <<Entry(KeyQueueName, Str(NameQ1))>>) :
        first \in BOOLEAN, vt \in VisibilityTimeouts, rp \in RedrivePolicies}

InitParams ==
    /\ manifest = "A"
    /\ boot = "idle"
    /\ creates = [r \in ResourceNames(service) |-> NoCreate]
    /\ status = [p \in DOMAIN Pairs(service.functions) |-> "unlaunched"]
    /\ QueueUrl = [p \in DOMAIN Pairs(service.functions) |-> <<>>]
    /\ pending = [p \in DOMAIN Pairs(service.functions) |-> {}]
    /\ cycle = [p \in DOMAIN Pairs(service.functions) |-> NoCycle]
    /\ rIn \in [queue : QueueDefinitions]
    /\ rOut = NotCalled

CallCreateInitialQueue ==
    /\ rOut = NotCalled
    /\ rOut' = createQueueParams(rIn.queue)
    /\ UNCHANGED <<manifest, boot, creates, status, QueueUrl, pending, cycle, rIn>>

NextParams == CallCreateInitialQueue

SpecParams == InitParams /\ [][NextParams]_vars

\* the number a string of decimal digits denotes
RECURSIVE ParseDecimal(_)
ParseDecimal(s) ==
    IF s = <<>> THEN 0
    ELSE 10 * ParseDecimal(SubSeq(s, 1, Len(s) - 1))
         + (CHOOSE d \in 0..9 : DigitChar(d) = s[Len(s)])

\* the string form of a string or numeric value
IsStringFormOf(text, v) ==
    /\ text.t = "string"
    /\ v.t = "string" => text = v
    /\ v.t = "number" =>
          /\ text.s # <<>>
          /\ \A i \in DOMAIN text.s : \E d \in 0..9 : text.s[i] = DigitChar(d)
          /\ ParseDecimal(text.s) = v.n
          /\ Len(text.s) > 1 => text.s[1] # "0"

Contains(s, sub) == \E i \in 0..(Len(s) - Len(sub)) : SubSeq(s, i + 1, i + Len(sub)) = sub

\* the JSON member "key":"value" a leaf whose value is a string without quotes
\* appears as
Member(key, value) == <<"\"">> \o key \o <<"\"", ":", "\"">> \o value \o <<"\"">>

\* QueueName is not among the attributes, every other string or numeric attribute is
\* its string form, and every nested mapping is one JSON text that holds each string
\* or numeric leaf as its string form
AttributesStringified ==
    rOut.kind = "return" =>
        LET A == rOut.value.Attributes
        IN  /\ KeyQueueName \notin DOMAIN A
            /\ DOMAIN A = {rIn.queue[i].key : i \in DOMAIN rIn.queue} \ {KeyQueueName}
            /\ \A k \in DOMAIN A :
                  LET v == Find(rIn.queue, k)
                  IN  /\ v.t \in {"string", "number"} => IsStringFormOf(A[k], v)
                      /\ v.t = "map" =>
                            /\ A[k].t = "string"
                            /\ Head(A[k].s) = "{" /\ A[k].s[Len(A[k].s)] = "}"
                            /\ \A j \in DOMAIN v.entries :
                                  LET leaf == v.entries[j]
                                  IN  /\ leaf.value.t = "number" =>
                                         LET text == NumToString(leaf.value.n)
                                         IN  /\ IsStringFormOf(Str(text), leaf.value)
                                             /\ Contains(A[k].s, Member(leaf.key, text))
                                      /\ (leaf.value.t = "string"
                                            /\ "\"" \notin {leaf.value.s[c] : c \in DOMAIN leaf.value.s})
                                            => Contains(A[k].s, Member(leaf.key, leaf.value.s))

\* C14: createInitialQueue sends an attribute map without QueueName in which every
\* string or numeric attribute is its string form and every nested mapping is one
\* JSON string with stringified string and numeric leaves, and in which a leaf that
\* is a cross-resource reference is not replaced by the bare name of the referenced
\* resource (it is replaced by the resource's resolved first output).
C14_ReferenceLeavesResolved ==
    /\ AttributesStringified
    /\ rOut.kind = "return" =>
          \A k \in DOMAIN rOut.value.Attributes :
              LET v == Find(rIn.queue, k)
              IN  v.t = "map" =>
                    \A j \in DOMAIN v.entries :
                        LET leaf == v.entries[j]
                        IN  (leaf.value.t = "ref" /\ leaf.value.GetAtt.t = "array"
                               /\ Len(leaf.value.GetAtt.a) >= 1)
                              => ~Contains(rOut.value.Attributes[k].s,
                                           Member(leaf.key, leaf.value.GetAtt.a[1].s))

-----------------------------------------------------------------------------
(* The two calling conventions of a handler (lines 120-124), inside the polling   *)
(* loop: rIn is handler.length, rOut counts per poller the calls of               *)
(* lambdaContext.done for its latest invocation and the times the await of line   *)
(* 194 resumed for it.                                                            *)

\* calls of its callback a three-parameter handler makes at most
MaxSignals == 2

NoSignals == [done |-> 0, resumed |-> 0]

\* a faulty variant: every call of the callback settles the promise anew
Settles_Always(promise) == TRUE

\* lines 8-14: resolve and reject act on a pending promise only, so the callback of
\* fromCallback settles its promise the first time it is called and never again
Settles(promise) == promise = "pending"

\* the promise of line 194 for the current invocation of poller p
InvocationPromise(p) ==
    CASE cycle[p].inv = "pending" -> "pending"
      [] cycle[p].inv = "success" -> "resolved"
      [] OTHER -> "rejected"

\* calls of lambdaContext.done for the current invocation of poller p so far
DoneCalls(p) == IF cycle[p].inv = "pending" THEN 0 ELSE rOut[p].done

\* lines 90-95 and 120-124: the handler signals completion. A handler of fewer than
\* three parameters returns a promise, whose settling calls lambdaContext.done once
\* (then or catch); a handler of three parameters is handed lambdaContext.done as its
\* callback and may call it again. Every call reaches the callback of fromCallback.
Done(p) ==
    /\ p \in Pollers
    /\ \/ \E op \in pending[p] : op.op = "invoke" /\ ~op.hung
       \/ Completed(p)
    /\ IF rIn.arity < 3 THEN DoneCalls(p) = 0 ELSE DoneCalls(p) < MaxSignals
    /\ \E err \in BOOLEAN :
          IF Settles(InvocationPromise(p))
          THEN /\ AfterInvoke(p, {op \in pending[p] : op.op # "invoke"},
                              [cycle[p] EXCEPT !.inv = IF err THEN "error" ELSE "success"],
                              err)
               /\ rOut' = [rOut EXCEPT ![p] =
                             [done |-> DoneCalls(p) + 1,
                              resumed |-> (IF cycle[p].inv = "pending" THEN 0
                                           ELSE rOut[p].resumed) + 1]]
          ELSE /\ rOut' = [rOut EXCEPT ![p].done = DoneCalls(p) + 1]
               /\ UNCHANGED <<status, QueueUrl, pending, cycle>>
    /\ UNCHANGED <<manifest, boot, creates, rIn>>

InitHandlers ==
    /\ manifest \in {"A", "B"}
    /\ boot = "idle"
    /\ creates = [r \in ResourceNames(service) |-> NoCreate]
    /\ status = [p \in DOMAIN Pairs(service.functions) |-> "unlaunched"]
    /\ QueueUrl = [p \in DOMAIN Pairs(service.functions) |-> <<>>]
    /\ pending = [p \in DOMAIN Pairs(service.functions) |-> {}]
    /\ cycle = [p \in DOMAIN Pairs(service.functions) |-> NoCycle]
    /\ rIn \in [arity : {2, 3}]
    /\ rOut = [p \in DOMAIN Pairs(service.functions) |-> NoSignals]

NextHandlers ==
    \/ StartInit
    \/ \E r \in DOMAIN creates : CreateQueueReply(r)
    \/ \E p \in Pollers : GetQueueUrlReply(p)
    \/ \E p \in Pollers : ReceiveReply(p)
    \/ \E p \in Pollers : Done(p)
    \/ \E p \in Pollers : DeleteReply(p)

SpecHandlers == InitHandlers /\ [][NextHandlers]_vars

\* C15: both calling conventions end in one completion signal: for every invocation
\* that finishes, whether the handler has two parameters or three, the await of the
\* poller resumes exactly once, with success or with an error, however often the
\* handler signals, and the poller proceeds (issues the delete) only after it.
C15_OneCompletionSignal ==
    \A p \in Pollers :
        /\ Completed(p) <=> (cycle[p].inv # "none" /\ cycle[p].inv # "threw"
                                /\ DoneCalls(p) >= 1)
        /\ Completed(p) => rOut[p].resumed = 1
        /\ (cycle[p].deletes # <<>> \/ Has(p, "deleteMessageBatch"))
              => Completed(p) /\ rOut[p].resumed = 1
        /\ Len(cycle[p].deletes) <= 1
        /\ Cardinality(pending[p]) <= 1

\* a three-parameter handler has called its callback twice for one invocation and
\* the poller waits for the answer to the one delete it issued
C15_Witness ==
    /\ rIn.arity = 3
    /\ \E p \in Pollers :
          /\ cycle[p].inv = "success"
          /\ rOut[p].done = 2 /\ rOut[p].resumed = 1
          /\ Has(p, "deleteMessageBatch")

-----------------------------------------------------------------------------
(* Bootstrap. *)

Launched(p) == status[p] # "unlaunched" \/ pending[p] # {} \/ cycle[p] # NoCycle

\* C16: all createQueue calls are issued before offlineStartInit waits on any of
\* them, and no poller is launched (none has issued a getQueueUrl or a
\* receiveMessage) until every createQueue call has settled.
C16_ProvisionBeforePolling ==
    /\ boot # "idle" => \A r \in QueueResources(service) : creates[r].call # "none"
    /\ (\E p \in Pollers : Launched(p))
          => \A r \in QueueResources(service) : creates[r].call \in {"ok", "error"}

\* both queues of manifest A were created, in two separate answers, and a poller
\* has got its queue URL and is receiving
C16_Witness ==
    /\ Cardinality(QueueResources(service)) = 2
    /\ \A r \in QueueResources(service) : creates[r].call = "ok"
    /\ \E p \in Pollers : Has(p, "receiveMessage")

\* C17: pollers are launched without waiting for each other: once offlineStartInit
\* has launched one poller it has launched them all and has returned, whatever has
\* become of the getQueueUrl or the first receive of any of them; a poller that
\* stalls or fails in its own startup leaves no later poller unlaunched.
C17_LaunchedTogether ==
    /\ \A p, q \in Pollers : Launched(p) => status[q] # "unlaunched"
    /\ (\E p \in Pollers : Launched(p)) => boot = "returned"
    /\ boot = "returned" => \A q \in Pollers : status[q] # "unlaunched"

\* offlineStartInit has returned; the resolution of a poller failed, and a poller
\* before it and a poller after it both wait for the answer to their getQueueUrl
C17_Witness ==
    /\ boot = "returned"
    /\ \E o, p, q \in Pollers :
          /\ o < p /\ p < q
          /\ ResolutionFails(p) /\ status[p] = "rejected"
          /\ Has(o, "getQueueUrl") /\ Has(q, "getQueueUrl")

\* the queue URL the backend gives for the queue name of poller p's declaration
BoundUrl(p) == UrlOf(getQueueName(service, queueEventOf(p)).value.s)

\* C18: a poller resolves its queue name and its queue URL once, before its first
\* receive: getQueueUrl is outstanding only before the URL is bound and before any
\* call of next, and is never issued again; every receiveMessage and every
\* deleteMessageBatch the poller issues carries the URL bound then, which is the URL
\* of the queue its declaration names.
C18_QueueBoundOnce ==
    \A p \in Pollers :
        /\ \A op \in pending[p] :
              /\ op.op = "getQueueUrl"
                    => /\ QueueUrl[p] = <<>> /\ cycle[p] = NoCycle
                       /\ op.QueueName = getQueueName(service, queueEventOf(p)).value
              /\ op.op \in {"receiveMessage", "deleteMessageBatch"}
                    => op.QueueUrl = QueueUrl[p]
        /\ \A i \in DOMAIN cycle[p].deletes : cycle[p].deletes[i].QueueUrl = QueueUrl[p]
        /\ cycle[p] # NoCycle => QueueUrl[p] # <<>>
        /\ QueueUrl[p] # <<>> => QueueUrl[p] = BoundUrl(p)

\* the poller of the declaration by reference waits, in a later call of next than
\* its first, for the answer to a delete on the URL of q2
C18_Witness ==
    /\ manifest = "A"
    /\ cycle[2].n = 0
    /\ QueueUrl[2] = UrlOf(NameQ2)
    /\ \E op \in pending[2] : op.op = "deleteMessageBatch" /\ op.QueueUrl = UrlOf(NameQ2)

\* the pollers that were launched for function f
PollersOf(f) ==
    {p \in Pollers : status[p] # "unlaunched"
                     /\ Pairs(service.functions)[p].functionName = f.name}

\* the sqs events of function f, by their position among its events
SqsPositions(f) == {j \in DOMAIN f.events : f.events[j].kind = "sqs"}

\* the place of x among the numbers of S
Rank(x, S) == Cardinality({y \in S : y <= x})

\* once offlineStartInit has returned, every function has as many pollers as it has
\* sqs events, the n-th of them polling for its n-th sqs event, and before that it
\* has none; once the createQueue calls are issued, the resources with a call are
\* those of the queue type
OnePollerPerPair ==
    /\ \A i \in DOMAIN service.functions :
          LET f == service.functions[i]
          IN  /\ boot = "returned" => Cardinality(PollersOf(f)) = Cardinality(SqsPositions(f))
              /\ boot # "returned" => PollersOf(f) = {}
    /\ \A i \in DOMAIN service.functions :
          LET f == service.functions[i]
          IN  \A p \in PollersOf(f) :
                  \E j \in SqsPositions(f) :
                      /\ Rank(j, SqsPositions(f)) = Rank(p, PollersOf(f))
                      /\ queueEventOf(p) = f.events[j].sqs
    /\ \A p \in Pollers : Cardinality({op \in pending[p] : op.op = "getQueueUrl"}) <= 1
    /\ \A r \in DOMAIN creates :
          /\ boot # "idle" =>
                (creates[r].call # "none" <=> Catalog(service)[r].Type = "AWS::SQS::Queue")
          /\ boot = "idle" => creates[r].call = "none"

\* a createQueue call that was issued is not issued again, and a poller that was
\* launched is not launched again
NothingTwice ==
    /\ \A r \in DOMAIN creates :
          creates[r].call # "none" => creates'[r].call \in {creates[r].call, "ok", "error"}
    /\ \A p \in Pollers :
          status[p] # "unlaunched"
              => /\ status'[p] # "unlaunched"
                 /\ \A op \in pending'[p] \ pending[p] : op.op # "getQueueUrl"

-----------------------------------------------------------------------------
(* A poller whose getQueueUrl or receiveMessage failed. *)

\* the chain of poller p ended at line 172 or at line 182: its queue name was
\* resolved and the current call of next, if any, has invoked no handler
FailedToPoll(p) ==
    /\ status[p] = "rejected"
    /\ ~ResolutionFails(p)
    /\ cycle[p].inv = "none"

\* every answer poller q waits for can be given, and q then takes its step
GoesOn(q) ==
    /\ Has(q, "getQueueUrl") => ENABLED GetQueueUrlReply(q)
    /\ Has(q, "receiveMessage") => ENABLED ReceiveReply(q)
    /\ (\E op \in pending[q] : op.op = "invoke" /\ ~op.hung) => ENABLED InvokeComplete(q)
    /\ Has(q, "deleteMessageBatch") => ENABLED DeleteReply(q)

\* a poller that failed to poll has nothing outstanding and has deleted nothing, and
\* every other poller goes on
StoppedAlone ==
    \A p \in Pollers :
        FailedToPoll(p)
            => /\ pending[p] = {}
               /\ cycle[p].deletes = <<>>
               /\ \A q \in Pollers \ {p} : GoesOn(q)

\* a poller that failed to poll takes no further step
StaysStopped ==
    \A p \in Pollers :
        FailedToPoll(p)
            => /\ status'[p] = status[p] /\ pending'[p] = pending[p]
               /\ cycle'[p] = cycle[p] /\ QueueUrl'[p] = QueueUrl[p]

\* C20: when the getQueueUrl or a receiveMessage of a poller fails, the poller stops
\* for good: from then on it has no receive, no invocation and no delete outstanding
\* and takes no step (nothing is retried), while every other poller can take every
\* step of its own loop.
C20_FailedPollerStops == []StoppedAlone /\ [][StaysStopped]_vars

\* a receive of one poller failed after the poller had got its queue URL, and
\* another poller is invoking its handler in a later call of next than its first
C20_Witness ==
    \E p, q \in Pollers :
        /\ p # q
        /\ FailedToPoll(p) /\ QueueUrl[p] # <<>>
        /\ Has(q, "invoke") /\ cycle[q].n = 0

=============================================================================
